---- MODULE Spec2Model ----
(***************************************************************************)
(* A model of the brainfuck-interpreter core: the compile pipeline         *)
(* (lexer, parser with loop optimization, instruction emission) and the    *)
(* Processor state machine executing an InstructionList against a Context  *)
(* (Memory, input stream, output stream).                                   *)
(*                                                                         *)
(* The Processor and the Compiler facade are translated from               *)
(* crates/common/src/execution/processor/mod.rs and                        *)
(* crates/common/src/compiler/mod.rs.  Memory, the lexer, the parser and   *)
(* InstructionList::compile are not among the available sources and are    *)
(* modelled from the specification's sections 4.1 - 4.4.                   *)
(***************************************************************************)
EXTENDS Integers, Sequences, FiniteSets, TLC

\* ------------------------------------------------------------------ bounds
\* Longest source enumerated exhaustively.
MaxSrcLen == 3
\* Longest tape.
MaxTape == 2
\* Number of representable cell values: cells hold 0 .. CellMod - 1.
CellMod == 3
\* Longest output stream / number of input reads followed.
MaxOut == 2
MaxIn == 2
\* Longest loop body enumerated exhaustively.
MaxBody == 5

\* ------------------------------------------------------------------ memory
\* Memory (tape): a record [cells, ptr, policy]; ptr is 0-based.
CellMin == 0
CellMax == CellMod - 1

InRange(v) == CellMin <= v /\ v <= CellMax

Wrap(v) == CellMin + ((v - CellMin) % CellMod)

Policies == {"wrap", "strict"}

MemoryNew(len, policy) ==
    [cells |-> [i \in 1..len |-> 0], ptr |-> 0, policy |-> policy]

MemLen(m) == Len(m.cells)

MemGet(m) == m.cells[m.ptr + 1]

\* Results of the fallible operations: [err, mem]; err = "None" on Ok.
MemOk(m) == [err |-> "None", mem |-> m]
MemErr(e, m) == [err |-> e, mem |-> m]


\* Mutant: the value is stored as it comes, neither checked nor wrapped.
MemSet_Unchecked(m, v) == MemOk([m EXCEPT !.cells[m.ptr + 1] = v])

MemSet(m, v) ==
    IF InRange(v)
    THEN MemOk([m EXCEPT !.cells[m.ptr + 1] = v])
    ELSE IF m.policy = "strict"
         THEN MemErr("Overflow", m)
         ELSE MemOk([m EXCEPT !.cells[m.ptr + 1] = Wrap(v)])

MemAdd(m, delta) == MemSet(m, MemGet(m) + delta)

MemSeek(m, offset) ==
    LET t == m.ptr + offset IN
    IF 0 <= t /\ t < MemLen(m)
    THEN MemOk([m EXCEPT !.ptr = t])
    ELSE IF m.policy = "strict"
         THEN MemErr("OutOfBound", m)
         ELSE MemOk([m EXCEPT !.ptr = t % MemLen(m)])

\* ------------------------------------------------------------------ lexer
\* A source is a sequence of characters; "x" stands for any character that
\* is not one of the eight commands.
Chars == {"+", "-", "<", ">", ",", ".", "[", "]", "x"}
Commands == Chars \ {"x"}

RECURSIVE build_token_list(_)
build_token_list(code) ==
    IF code = <<>> THEN <<>>
    ELSE IF Head(code) \in Commands
         THEN <<Head(code)>> \o build_token_list(Tail(code))
         ELSE build_token_list(Tail(code))

\* ------------------------------------------------------------------ parser
\* Syntax nodes.
NodeOf(tok) ==
    CASE tok = "+" -> [kind |-> "Add", val |-> 1]
      [] tok = "-" -> [kind |-> "Add", val |-> -1]
      [] tok = ">" -> [kind |-> "Seek", offset |-> 1]
      [] tok = "<" -> [kind |-> "Seek", offset |-> -1]
      [] tok = "," -> [kind |-> "Input"]
      [] tok = "." -> [kind |-> "Output"]

\* The walk of a loop body made of Add and Seek nodes only: the final
\* offset, the net increment at every offset, and the offsets other than
\* the start in first-visited order.
RECURSIVE Walk(_, _, _, _)
Walk(body, off, net, order) ==
    IF body = <<>> THEN [off |-> off, net |-> net, order |-> order]
    ELSE LET n == Head(body) IN
         IF n.kind = "Add"
         THEN Walk(Tail(body), off,
                   [o \in DOMAIN net \cup {off} |->
                       (IF o \in DOMAIN net THEN net[o] ELSE 0)
                       + (IF o = off THEN n.val ELSE 0)],
                   order)
         ELSE LET t == off + n.offset IN
              Walk(Tail(body), t,
                   [o \in DOMAIN net \cup {t} |->
                       IF o \in DOMAIN net THEN net[o] ELSE 0],
                   IF t = 0 \/ (\E i \in 1..Len(order) : order[i] = t)
                   THEN order ELSE Append(order, t))

Simple(body) == \A i \in 1..Len(body) : body[i].kind \in {"Add", "Seek"}

BodyWalk(body) == Walk(body, 0, (0 :> 0), <<>>)


\* Mutant: any net decrement of the starting cell is taken for the idiom.
Matches_AnyDecrement(body) ==
    /\ Simple(body)
    /\ BodyWalk(body).off = 0
    /\ BodyWalk(body).net[0] < 0

\* The clear-and-distribute idiom.
Matches(body) ==
    /\ Simple(body)
    /\ BodyWalk(body).off = 0
    /\ BodyWalk(body).net[0] = -1

TargetOf(body) ==
    LET w == BodyWalk(body) IN
    [i \in 1..Len(w.order) |-> [offset |-> w.order[i], times |-> w.net[w.order[i]]]]

\* The node a completed loop becomes.
LoopNode(body) ==
    IF Matches(body)
    THEN IF TargetOf(body) = <<>>
         THEN [kind |-> "Clear"]
         ELSE [kind |-> "AddUntilZero", target |-> TargetOf(body)]
    ELSE [kind |-> "Loop", body |-> body]

ParseOk(tree) == [ok |-> TRUE, err |-> "None", pos |-> -1, tree |-> tree]
ParseErr(e, p) == [ok |-> FALSE, err |-> e, pos |-> p, tree |-> <<>>]

\* stack: the open contexts, innermost last; stack[1] is the root sequence.
\* Each context is [pos, nodes]: the position of its loop-open token and the
\* nodes collected so far.  i is the 1-based index of the next token.
RECURSIVE ParseFrom(_, _, _)
ParseFrom(tokens, i, stack) ==
    LET d == Len(stack) IN
    IF i > Len(tokens)
    THEN IF d > 1
         THEN ParseErr("UnmatchedOpenBracket", stack[d].pos)
         ELSE ParseOk(stack[1].nodes)
    ELSE LET tok == tokens[i] IN
         IF tok = "["
         THEN ParseFrom(tokens, i + 1,
                        Append(stack, [pos |-> i - 1, nodes |-> <<>>]))
         ELSE IF tok = "]"
         THEN IF d = 1
              THEN ParseErr("UnmatchedCloseBracket", i - 1)
              ELSE ParseFrom(tokens, i + 1,
                     [SubSeq(stack, 1, d - 1) EXCEPT
                        ![d - 1].nodes = Append(@, LoopNode(stack[d].nodes))])
         ELSE ParseFrom(tokens, i + 1,
                        [stack EXCEPT ![d].nodes = Append(@, NodeOf(tok))])

parse(tokens) == ParseFrom(tokens, 1, <<[pos |-> -1, nodes |-> <<>>]>>)

\* ------------------------------------------------------- instruction list
Halt == [op |-> "Halt"]

\* The instructions of a node sequence whose first instruction lands at
\* index base (0-based) of the final list.
RECURSIVE Emit(_, _)
Emit(nodes, base) ==
    IF nodes = <<>> THEN <<>>
    ELSE LET n == Head(nodes)
             first ==
               CASE n.kind = "Add" -> <<[op |-> "Add", val |-> n.val]>>
                 [] n.kind = "Seek" -> <<[op |-> "Seek", offset |-> n.offset]>>
                 [] n.kind = "Clear" -> <<[op |-> "Clear"]>>
                 [] n.kind = "AddUntilZero" ->
                        <<[op |-> "AddUntilZero", target |-> n.target]>>
                 [] n.kind = "Input" -> <<[op |-> "Input"]>>
                 [] n.kind = "Output" -> <<[op |-> "Output"]>>
                 [] n.kind = "Loop" ->
                        LET inner == Emit(n.body, base + 1) IN
                        <<[op |-> "JumpIfZero", target |-> base + Len(inner) + 2]>>
                        \o inner
                        \o <<[op |-> "Jump", target |-> base]>>
         IN first \o Emit(Tail(nodes), base + Len(first))


\* Mutant: the trailing Halt is forgotten.
InstructionList_compile_NoHalt(tree) == Emit(tree, 0)

InstructionList_compile(tree) == Emit(tree, 0) \o <<Halt>>

\* ------------------------------------------------------------ the facade
CompileOk(list) == [ok |-> TRUE, err |-> "None", pos |-> -1, list |-> list]
CompileErr(e, p) == [ok |-> FALSE, err |-> e, pos |-> p, list |-> <<>>]


\* Mutant: a parse error is swallowed and an empty program returned.
compile_Unchecked(code) ==
    LET syntax_tree == parse(build_token_list(code)) IN
    CompileOk(InstructionList_compile(syntax_tree.tree))

compile(code) ==
    LET token_list == build_token_list(code)
        syntax_tree == parse(token_list)
    IN  IF syntax_tree.ok
        THEN CompileOk(InstructionList_compile(syntax_tree.tree))
        ELSE CompileErr(syntax_tree.err, syntax_tree.pos)

\* --------------------------------------------------------------- processor
\* A machine is the Processor's own fields (counter, state) together with
\* the Context it is run against (memory, in_stream, out_stream); panic
\* records that the call unwound (an unwrap on Err, unreachable!(), an
\* index past the end of the list).
ProcessorNew(mem) ==
    [counter |-> 0, state |-> "Ready", memory |-> mem,
     in_stream |-> <<>>, out_stream |-> <<>>, panic |-> FALSE]

\* Return values of step and run.
NoRet == [kind |-> "None", source |-> "None"]
Ok == [kind |-> "Ok", source |-> "None"]
ErrMemory(e) == [kind |-> "Memory", source |-> e]
ErrAlreadyHalted == [kind |-> "AlreadyHalted", source |-> "None"]
ErrFailed == [kind |-> "Failed", source |-> "None"]
ErrEmpty == [kind |-> "Empty", source |-> "None"]
Panic == [kind |-> "Panic", source |-> "None"]

Returned(m, r) == [m |-> m, ret |-> IF m.panic THEN Panic ELSE r]

abort(m) == [m EXCEPT !.state = "Failed"]

check_halted(instrs, m) ==
    IF m.counter >= Len(instrs)
    THEN [m EXCEPT !.panic = TRUE]
    ELSE IF instrs[m.counter + 1] = Halt
         THEN [m EXCEPT !.state = "Halted"]
         ELSE m


\* Mutant: the counter advances without the Halt check.
tick_NoCheck(instrs, m) == [m EXCEPT !.counter = @ + 1]

tick(instrs, m) == check_halted(instrs, [m EXCEPT !.counter = @ + 1])

jump(instrs, m, target) == check_halted(instrs, [m EXCEPT !.counter = target])


\* Mutant: the error is returned but the processor is not aborted.
StepAdd_NoAbort(instrs, m, ins) ==
    LET r == MemAdd(m.memory, ins.val) IN
    IF r.err # "None"
    THEN Returned(m, ErrMemory(r.err))
    ELSE Returned(tick(instrs, [m EXCEPT !.memory = r.mem]), Ok)

StepAdd(instrs, m, ins) ==
    LET r == MemAdd(m.memory, ins.val) IN
    IF r.err # "None"
    THEN Returned(abort(m), ErrMemory(r.err))
    ELSE Returned(tick(instrs, [m EXCEPT !.memory = r.mem]), Ok)


\* Mutant: the pointer is moved the wrong way.
StepSeek_Negated(instrs, m, ins) ==
    LET r == MemSeek(m.memory, -ins.offset) IN
    IF r.err # "None"
    THEN Returned(abort(m), ErrMemory(r.err))
    ELSE Returned(tick(instrs, [m EXCEPT !.memory = r.mem]), Ok)

StepSeek(instrs, m, ins) ==
    LET r == MemSeek(m.memory, ins.offset) IN
    IF r.err # "None"
    THEN Returned(abort(m), ErrMemory(r.err))
    ELSE Returned(tick(instrs, [m EXCEPT !.memory = r.mem]), Ok)

StepClear(instrs, m) ==
    LET r == MemSet(m.memory, 0) IN
    IF r.err # "None"
    THEN Returned([m EXCEPT !.panic = TRUE], Panic)
    ELSE Returned(tick(instrs, [m EXCEPT !.memory = r.mem]), Ok)

\* The loop of add_while_zero over the (offset, times) pairs.
RECURSIVE AddEach(_, _, _)
AddEach(target, val, mem) ==
    IF target = <<>> THEN MemOk(mem)
    ELSE LET a == Head(target)
             s1 == MemSeek(mem, a.offset)
         IN  IF s1.err # "None" THEN s1
             ELSE LET s2 == MemAdd(s1.mem, val * a.times) IN
                  IF s2.err # "None" THEN s2
                  ELSE LET s3 == MemSeek(s2.mem, -a.offset) IN
                       IF s3.err # "None" THEN s3
                       ELSE AddEach(Tail(target), val, s3.mem)

add_while_zero(target, memory) ==
    LET val == MemGet(memory) IN
    IF val = 0 THEN MemOk(memory)
    ELSE AddEach(target, val, MemSet(memory, 0).mem)

StepAddUntilZero(instrs, m, ins) ==
    LET r == add_while_zero(ins.target, m.memory) IN
    IF r.err # "None"
    THEN Returned(abort([m EXCEPT !.memory = r.mem]), ErrMemory(r.err))
    ELSE Returned(tick(instrs, [m EXCEPT !.memory = r.mem]), Ok)

\* v is the value in_stream.read() yields.
StepInput(instrs, m, v) ==
    LET r == MemSet(m.memory, v)
        read == [m EXCEPT !.in_stream = Append(@, v)]
    IN  IF r.err # "None"
        THEN Returned([read EXCEPT !.panic = TRUE], Panic)
        ELSE Returned(tick(instrs, [read EXCEPT !.memory = r.mem]), Ok)


\* Mutant: the pointer is written instead of the cell it points to.
StepOutput_WritesPointer(instrs, m) ==
    Returned(tick(instrs,
                  [m EXCEPT !.out_stream = Append(@, m.memory.ptr)]), Ok)

\* Mutant: the counter advances but nothing is written.
StepOutput_Silent(instrs, m) == Returned(tick(instrs, m), Ok)

StepOutput(instrs, m) ==
    Returned(tick(instrs,
                  [m EXCEPT !.out_stream = Append(@, MemGet(m.memory))]), Ok)

StepJump(instrs, m, ins) == Returned(jump(instrs, m, ins.target), Ok)


\* Mutant: the condition is inverted.
StepJumpIfZero_Inverted(instrs, m, ins) ==
    IF MemGet(m.memory) # 0
    THEN Returned(jump(instrs, m, ins.target), Ok)
    ELSE Returned(tick(instrs, m), Ok)

StepJumpIfZero(instrs, m, ins) ==
    IF MemGet(m.memory) = 0
    THEN Returned(jump(instrs, m, ins.target), Ok)
    ELSE Returned(tick(instrs, m), Ok)

StepHalt(m) == Returned([m EXCEPT !.panic = TRUE], Panic)

Dispatch(instrs, m, v) ==
    IF m.counter >= Len(instrs)
    THEN Returned([m EXCEPT !.panic = TRUE], Panic)
    ELSE LET ins == instrs[m.counter + 1] IN
         CASE ins.op = "Add" -> StepAdd(instrs, m, ins)
           [] ins.op = "Seek" -> StepSeek(instrs, m, ins)
           [] ins.op = "Clear" -> StepClear(instrs, m)
           [] ins.op = "AddUntilZero" -> StepAddUntilZero(instrs, m, ins)
           [] ins.op = "Input" -> StepInput(instrs, m, v)
           [] ins.op = "Output" -> StepOutput(instrs, m)
           [] ins.op = "Jump" -> StepJump(instrs, m, ins)
           [] ins.op = "JumpIfZero" -> StepJumpIfZero(instrs, m, ins)
           [] ins.op = "Halt" -> StepHalt(m)


\* Mutant: the terminal states are not turned away.
step_NoTerminalCheck(instrs, m, v) == Dispatch(instrs, m, v)

step(instrs, m, v) ==
    IF m.state = "Halted" THEN Returned(m, ErrAlreadyHalted)
    ELSE IF m.state = "Failed" THEN Returned(m, ErrFailed)
    ELSE Dispatch(instrs, m, v)

\* The match at the head of run: the error it returns at once, or NoRet
\* when run goes on to its loop.

\* Mutant: the Halt-only program is not rejected.
run_entry_NoEmpty(instrs, m) ==
    IF m.state = "Halted" THEN ErrAlreadyHalted
    ELSE IF m.state = "Failed" THEN ErrFailed
    ELSE NoRet

run_entry(instrs, m) ==
    IF m.state = "Ready" /\ Len(instrs) = 1 THEN ErrEmpty
    ELSE IF m.state = "Halted" THEN ErrAlreadyHalted
    ELSE IF m.state = "Failed" THEN ErrFailed
    ELSE NoRet


\* Mutant: the loop goes on until the processor fails.
run_continues_UntilFailed(m) == m.state # "Failed"

\* The condition of run's while loop.
run_continues(m) == m.state = "Ready" \/ m.state = "Running"

\* ------------------------------------------------------------------ state
VARIABLES
    source,        \* the text handed to compile
    compiled,      \* what compile returned
    instructions,  \* Processor.instructions
    counter,       \* Processor.counter.val
    state,         \* Processor.state
    memory,        \* Context.memory
    in_stream,     \* Context.in_stream: the values read so far
    out_stream,    \* Context.out_stream: the values written so far
    pc,            \* where the caller is: "source", "rejected", "idle",
                   \* "run" (inside run's loop), "aborted" (a call panicked)
    ret,           \* what the last call of step or run returned
    pre,           \* history: the machine before the last call
    last,          \* history: the last call and the instruction it dispatched
    naive          \* a second processor running the unoptimized form of a loop

vars == <<source, compiled, instructions, counter, state, memory, in_stream,
          out_stream, pc, ret, pre, last, naive>>

Machine ==
    [counter |-> counter, state |-> state, memory |-> memory,
     in_stream |-> in_stream, out_stream |-> out_stream, panic |-> FALSE]

Becomes(m) ==
    /\ counter' = m.counter
    /\ state' = m.state
    /\ memory' = m.memory
    /\ in_stream' = m.in_stream
    /\ out_stream' = m.out_stream

NoInstr == [op |-> "None"]

\* The instruction a step of machine m dispatches on, if it dispatches.
Dispatched(instrs, m) ==
    IF m.state \in {"Halted", "Failed"} \/ m.counter >= Len(instrs)
    THEN NoInstr
    ELSE instrs[m.counter + 1]

\* The values in_stream.read() may yield: any integer, in or out of the
\* cells' range.
InputVals == (CellMin - 1)..(CellMax + 1)

ReadChoices(instrs, m) ==
    IF Dispatched(instrs, m).op = "Input" THEN InputVals ELSE {0}

\* The streams are followed up to MaxIn reads and MaxOut writes.
WithinBounds(instrs, m) ==
    /\ Dispatched(instrs, m).op = "Input" => Len(m.in_stream) < MaxIn
    /\ Dispatched(instrs, m).op = "Output" => Len(m.out_stream) < MaxOut

NoCompile == [ok |-> FALSE, err |-> "None", pos |-> -1, list |-> <<>>]
NoNaive == [instructions |-> <<>>, m |-> ProcessorNew(MemoryNew(1, "wrap")),
            ret |-> NoRet]

RECURSIVE SeqsUpTo(_, _)
SeqsUpTo(S, n) ==
    IF n = 0 THEN {<<>>}
    ELSE LET shorter == SeqsUpTo(S, n - 1) IN
         shorter \cup {Append(q, c) : q \in shorter, c \in S}

\* Longer programs, run beside every source of at most MaxSrcLen characters.
SampleSources ==
    { <<"+", "[", ".", "-", "]">>,
      <<"+", "[", "-", ">", "+", "<", "]">>,
      <<"+", "+", "[", "-", ">", "+", "+", "<", "]", ">", ".">>,
      <<"+", "[", ">", "+", "]">>,
      <<",", "[", "-", ">", "+", ">", "+", "<", "<", "]">>,
      <<"-", "[", "[", "-", "]", ",", "]">>,
      <<"+", "+", "+", ".">>,
      <<"+", "[", "[", ".", "-", "]", "]">>,
      <<"]", "[">>, <<"[", "]", "]", "[">> }

Sources == SeqsUpTo(Chars, MaxSrcLen) \cup SampleSources

Init ==
    /\ source \in Sources
    /\ compiled = NoCompile
    /\ instructions = <<>>
    /\ counter = 0
    /\ state = "Ready"
    /\ \E len \in 1..MaxTape, policy \in Policies :
          memory = MemoryNew(len, policy)
    /\ in_stream = <<>>
    /\ out_stream = <<>>
    /\ pc = "source"
    /\ ret = NoRet
    /\ pre = Machine
    /\ last = [op |-> "none", by |-> "none", instr |-> NoInstr]
    /\ naive = NoNaive

\* Compiler::compile, and Processor::new on the list it returns.
Compile ==
    /\ pc = "source"
    /\ compiled' = compile(source)
    /\ IF compiled'.ok
       THEN /\ instructions' = compiled'.list
            /\ pc' = "idle"
       ELSE /\ instructions' = <<>>
            /\ pc' = "rejected"
    /\ counter' = 0
    /\ state' = "Ready"
    /\ pre' = Machine
    /\ last' = [op |-> "compile", by |-> "caller", instr |-> NoInstr]
    /\ UNCHANGED <<source, memory, in_stream, out_stream, ret, naive>>

\* One call of step, by `by`; pcOk and pcErr are where the caller is after
\* an Ok and after an Err.
StepBy(by, pcOk, pcErr) ==
    /\ WithinBounds(instructions, Machine)
    /\ \E v \in ReadChoices(instructions, Machine) :
          LET r == step(instructions, Machine, v) IN
          /\ Becomes(r.m)
          /\ ret' = r.ret
          /\ pc' = IF r.ret = Panic THEN "aborted"
                   ELSE IF r.ret = Ok THEN pcOk ELSE pcErr
    /\ pre' = Machine
    /\ last' = [op |-> "step", by |-> by,
                instr |-> Dispatched(instructions, Machine)]
    /\ UNCHANGED <<source, compiled, instructions, naive>>

\* step called on its own.
StepCall ==
    /\ pc = "idle"
    /\ StepBy("caller", "idle", "idle")

\* run, up to its loop.
RunCall ==
    /\ pc = "idle"
    /\ ret' = run_entry(instructions, Machine)
    /\ pc' = IF ret' = NoRet THEN "run" ELSE "idle"
    /\ pre' = Machine
    /\ last' = [op |-> "run", by |-> "caller", instr |-> NoInstr]
    /\ UNCHANGED <<source, compiled, instructions, counter, state, memory,
                   in_stream, out_stream, naive>>

\* One pass of run's loop: step(context)?
RunStep ==
    /\ pc = "run"
    /\ run_continues(Machine)
    /\ StepBy("run", "run", "idle")

\* run's loop ends and run returns Ok(()).
RunReturn ==
    /\ pc = "run"
    /\ ~run_continues(Machine)
    /\ ret' = Ok
    /\ pc' = "idle"
    /\ pre' = Machine
    /\ last' = [op |-> "run_return", by |-> "caller", instr |-> NoInstr]
    /\ UNCHANGED <<source, compiled, instructions, counter, state, memory,
                   in_stream, out_stream, naive>>

Next == Compile \/ StepCall \/ RunCall \/ RunStep \/ RunReturn

Spec == Init /\ [][Next]_vars

\* ------------------------------------------ a loop, optimized and naive
RECURSIVE NodesOf(_)
NodesOf(tokens) ==
    IF tokens = <<>> THEN <<>>
    ELSE <<NodeOf(Head(tokens))>> \o NodesOf(Tail(tokens))

\* Longer bodies, tried beside every matching body of at most MaxBody tokens.
SampleBodies ==
    { <<"-", ">", "+", ">", "+", "<", "<">>,
      <<"-", ">", "+", "+", ">", "-", "<", "<">>,
      <<">", "+", "<", "-", "<", "+", ">">> }

LoopBodies ==
    {b \in SeqsUpTo({"+", "-", "<", ">"}, MaxBody) : Matches(NodesOf(b))}
    \cup SampleBodies

\* The JumpIfZero / body / Jump form of the loop with this body.
NaiveForm(body) ==
    InstructionList_compile(<<[kind |-> "Loop", body |-> NodesOf(body)]>>)

\* Any tape: any length, pointer, cell values and policy.
Tapes ==
    UNION { { [cells |-> c, ptr |-> p, policy |-> pol] :
                c \in [1..len -> CellMin..CellMax],
                p \in 0..(len - 1),
                pol \in Policies } : len \in 1..MaxTape }

\* The loop is compiled and loaded into a processor, and its naive form
\* into a second one, each with its own copy of the same tape.
LoopInit ==
    /\ \E body \in LoopBodies : source = <<"[">> \o body \o <<"]">>
    /\ compiled = compile(source)
    /\ instructions = compiled.list
    /\ counter = 0
    /\ state = "Ready"
    /\ memory \in Tapes
    /\ in_stream = <<>>
    /\ out_stream = <<>>
    /\ pc = "idle"
    /\ ret = NoRet
    /\ pre = Machine
    /\ last = [op |-> "none", by |-> "none", instr |-> NoInstr]
    /\ naive = [instructions |-> NaiveForm(SubSeq(source, 2, Len(source) - 1)),
                m |-> ProcessorNew(memory),
                ret |-> NoRet]

\* One pass of run's loop on the naive processor.
NaiveStep ==
    /\ naive.ret \in {NoRet, Ok}
    /\ run_continues(naive.m)
    /\ LET r == step(naive.instructions, naive.m, 0) IN
       naive' = [naive EXCEPT !.m = r.m, !.ret = r.ret]
    /\ UNCHANGED <<source, compiled, instructions, counter, state, memory,
                   in_stream, out_stream, pc, ret, pre, last>>

LoopNext == RunCall \/ RunStep \/ RunReturn \/ NaiveStep

LoopSpec == LoopInit /\ [][LoopNext]_vars

\* ------------------------------------------------- compile, loops only
\* Every single loop whose body is at most MaxBody commands, and some
\* nested and consecutive loops.
LoopSources ==
    { <<"[">> \o b \o <<"]">> :
         b \in SeqsUpTo(Commands \ {"[", "]"}, MaxBody) }
    \cup { <<"[", "[", "-", "]", "]">>,
           <<"[", "-", "[", ".", "]", ">", "]">>,
           <<"[", ">", "]", "[", "-", ">", "+", "<", "]", "[", "[", ",", "]", "]">>,
           <<"+", "[", "-", ">", ">", "+", "<", "-", "<", "]", ".">> }

CompileInit ==
    /\ source \in LoopSources
    /\ compiled = NoCompile
    /\ instructions = <<>>
    /\ counter = 0
    /\ state = "Ready"
    /\ memory = MemoryNew(1, "wrap")
    /\ in_stream = <<>>
    /\ out_stream = <<>>
    /\ pc = "source"
    /\ ret = NoRet
    /\ pre = Machine
    /\ last = [op |-> "none", by |-> "none", instr |-> NoInstr]
    /\ naive = NoNaive

CompileNext == Compile

CompileSpec == CompileInit /\ [][CompileNext]_vars

\* ================================================================= claims
Loaded == pc \notin {"source", "rejected"}
Tokens == build_token_list(source)
Stepped == last.op = "step"
Terminal(st) == st \in {"Halted", "Failed"}

\* Bracket matching, by depth: the number of loop-opens left unmatched at
\* the end, and whether some loop-close had no open to match.
RECURSIVE OpenLeft(_, _)
OpenLeft(tokens, depth) ==
    IF tokens = <<>> THEN depth
    ELSE IF Head(tokens) = "[" THEN OpenLeft(Tail(tokens), depth + 1)
    ELSE IF Head(tokens) = "]"
         THEN OpenLeft(Tail(tokens), IF depth > 0 THEN depth - 1 ELSE 0)
    ELSE OpenLeft(Tail(tokens), depth)

RECURSIVE CloseUnmatched(_, _)
CloseUnmatched(tokens, depth) ==
    IF tokens = <<>> THEN FALSE
    ELSE IF Head(tokens) = "[" THEN CloseUnmatched(Tail(tokens), depth + 1)
    ELSE IF Head(tokens) = "]"
         THEN depth = 0 \/ CloseUnmatched(Tail(tokens), depth - 1)
    ELSE CloseUnmatched(Tail(tokens), depth)

HasUnmatchedOpen == OpenLeft(Tokens, 0) > 0
HasUnmatchedClose == CloseUnmatched(Tokens, 0)
Balanced == ~HasUnmatchedOpen /\ ~HasUnmatchedClose

IsJump(ins) == ins.op \in {"Jump", "JumpIfZero"}

\* C1 as stated: once the naive form of an idiom loop has run to completion
\* and the instruction emitted for the loop has been executed, on copies of
\* the same tape, the two memories (pointer and all cells) are equal.
C1_Original ==
    (naive.m.state = "Halted" /\ Terminal(state)) =>
        /\ state = "Halted"
        /\ memory = naive.m.memory

\* C2: for every source whose brackets are balanced, compile succeeds, the
\* list it returns holds exactly one Halt, its last element, and every Jump
\* and JumpIfZero target is an index of that list.
C2_BalancedCompiles ==
    (pc # "source" /\ Balanced) =>
        /\ compiled.ok
        /\ pc = "idle" \/ pc = "run" \/ pc = "aborted"
        /\ instructions = compiled.list
        /\ Len(compiled.list) >= 1
        /\ \A i \in 1..Len(compiled.list) :
              /\ (compiled.list[i] = Halt) <=> (i = Len(compiled.list))
              /\ IsJump(compiled.list[i]) =>
                    compiled.list[i].target \in 0..(Len(compiled.list) - 1)

C2_Witness ==
    /\ pc = "idle"
    /\ Balanced
    /\ compiled.ok
    /\ \E i, j \in 1..Len(compiled.list) :
          /\ i < j
          /\ compiled.list[i].op = "JumpIfZero"
          /\ compiled.list[j].op = "JumpIfZero"

\* C3 as stated: every source with an unmatched loop-open fails with
\* UnmatchedOpenBracket and every source with an unmatched loop-close fails
\* with UnmatchedCloseBracket ("]" at position 0); no list is returned.
C3_Original ==
    pc # "source" =>
        /\ HasUnmatchedOpen =>
              ~compiled.ok /\ compiled.err = "UnmatchedOpenBracket"
        /\ HasUnmatchedClose =>
              ~compiled.ok /\ compiled.err = "UnmatchedCloseBracket"
        /\ Tokens = <<"]">> => compiled.pos = 0
        /\ ~compiled.ok => compiled.list = <<>> /\ pc = "rejected"

\* C3 amended: a source with an unmatched loop-close fails with
\* UnmatchedCloseBracket; a source with an unmatched loop-open and no
\* unmatched loop-close fails with UnmatchedOpenBracket; "]" fails at
\* position 0; in both cases no list is returned and no processor is built.
C3_UnmatchedRejected ==
    pc # "source" =>
        /\ (HasUnmatchedOpen /\ ~HasUnmatchedClose) =>
              ~compiled.ok /\ compiled.err = "UnmatchedOpenBracket"
        /\ HasUnmatchedClose =>
              ~compiled.ok /\ compiled.err = "UnmatchedCloseBracket"
        /\ Tokens = <<"]">> => compiled.pos = 0
        /\ ~compiled.ok =>
              compiled.list = <<>> /\ instructions = <<>> /\ pc = "rejected"

C3_Witness ==
    /\ pc = "rejected"
    /\ HasUnmatchedOpen
    /\ HasUnmatchedClose
    /\ compiled.err = "UnmatchedCloseBracket"

\* C4 as stated: a successful step taken from Ready (or Running) that does
\* not land on the Halt instruction leaves the processor Running.
C4_Original ==
    (/\ Stepped
     /\ ret = Ok
     /\ pre.state \in {"Ready", "Running"}
     /\ instructions[counter + 1] # Halt) => state = "Running"

\* C5: in state Halted (resp. Failed) a call of step or run returns
\* AlreadyHalted (resp. Failed) and leaves the processor state, the counter,
\* the memory and both streams as they were.
C5_TerminalAbsorbing ==
    (last.op \in {"step", "run"} /\ Terminal(pre.state)) =>
        /\ pre.state = "Halted" => ret = ErrAlreadyHalted
        /\ pre.state = "Failed" => ret = ErrFailed
        /\ Machine = pre
        /\ pc = "idle"

C5_Witness ==
    /\ last.op = "run"
    /\ pre.state = "Halted"
    /\ ret = ErrAlreadyHalted
    /\ out_stream # <<>>
    /\ MemGet(memory) # 0

\* C6: when a Memory operation of an Add, Seek or AddUntilZero step returns an
\* error, the step returns ProcessorError::Memory carrying it, the processor
\* is Failed, the counter is not advanced and run has returned; after a
\* failed Add or Seek the memory is as before the step.
C6_MemoryErrorAborts ==
    (Stepped /\ ~Terminal(pre.state)) =>
        LET ins == last.instr
            failed(e) == /\ ret = ErrMemory(e)
                         /\ state = "Failed"
                         /\ counter = pre.counter
                         /\ pc = "idle"
        IN  /\ ins.op = "Add" =>
                 LET r == MemAdd(pre.memory, ins.val) IN
                 r.err # "None" => failed(r.err) /\ memory = pre.memory
            /\ ins.op = "Seek" =>
                 LET r == MemSeek(pre.memory, ins.offset) IN
                 r.err # "None" => failed(r.err) /\ memory = pre.memory
            /\ ins.op = "AddUntilZero" =>
                 LET r == add_while_zero(ins.target, pre.memory) IN
                 r.err # "None" => failed(r.err)
            /\ ret.kind = "Memory" =>
                 /\ ins.op \in {"Add", "Seek", "AddUntilZero"}
                 /\ failed(ret.source)

C6_Witness ==
    /\ Stepped
    /\ last.by = "run"
    /\ last.instr.op = "AddUntilZero"
    /\ ret = ErrMemory("OutOfBound")
    /\ state = "Failed"

\* C7 as stated: an Input step returns Ok, stores the value read in the
\* current cell (as the cell represents it: itself when it is in range) and
\* advances the counter, whatever value the stream yields and under either
\* policy; it does not panic.
C7_Original ==
    (Stepped /\ last.instr.op = "Input") =>
        /\ ret = Ok
        /\ pc # "aborted"
        /\ Len(in_stream) = Len(pre.in_stream) + 1
        /\ MemGet(memory) = Wrap(in_stream[Len(in_stream)])
        /\ counter = pre.counter + 1

\* C8: in every state of a run the pointer is within [0, length) and every
\* cell is within the representable range.
C8_MemoryInRange ==
    /\ memory.ptr \in 0..(MemLen(memory) - 1)
    /\ \A i \in 1..MemLen(memory) : InRange(memory.cells[i])

C8_Witness ==
    /\ Stepped
    /\ last.instr.op = "AddUntilZero"
    /\ ret.kind = "Memory"
    /\ memory # pre.memory

\* C9: run on a Ready processor holding the Halt-only list (what an empty
\* or comment-only source compiles to) returns Empty and touches nothing:
\* the processor is Ready with counter 0 still, so the next run is rejected
\* the same way.
C9_EmptyRejected ==
    /\ (Loaded /\ Tokens = <<>>) => instructions = <<Halt>>
    /\ (last.op = "run" /\ pre.state = "Ready" /\ Len(instructions) = 1) =>
          /\ ret = ErrEmpty
          /\ Machine = pre
          /\ state = "Ready"
          /\ counter = 0
          /\ pc = "idle"
          /\ run_entry(instructions, Machine) = ErrEmpty

C9_Witness ==
    /\ last.op = "run"
    /\ ret = ErrEmpty
    /\ source # <<>>
    /\ memory.policy = "strict"

\* C10: a Seek whose position would leave [0, length) fails with OutOfBound
\* under the strict policy, pointer and cells unchanged, and under the wrap
\* policy moves the pointer to (pointer + offset) modulo the length; a step
\* whose set, add or seek returned Err leaves pointer and cells unchanged.
C10_SeekBounds ==
    (Stepped /\ ~Terminal(pre.state)) =>
        LET ins == last.instr
            len == MemLen(pre.memory)
        IN  /\ ins.op = "Seek" =>
                 LET t == pre.memory.ptr + ins.offset IN
                 IF 0 <= t /\ t < len
                 THEN ret = Ok /\ memory = [pre.memory EXCEPT !.ptr = t]
                 ELSE IF pre.memory.policy = "strict"
                 THEN ret = ErrMemory("OutOfBound") /\ memory = pre.memory
                 ELSE /\ ret = Ok
                      /\ memory.ptr \in 0..(len - 1)
                      /\ (memory.ptr - t) % len = 0
                      /\ memory.cells = pre.memory.cells
            /\ (ins.op \in {"Add", "Seek"} /\ ret.kind = "Memory") =>
                 memory = pre.memory
            /\ (ins.op = "Input" /\ ret = Panic) => memory = pre.memory

C10_Witness ==
    /\ Stepped
    /\ last.instr.op = "Seek"
    /\ ret = ErrMemory("OutOfBound")
    /\ MemGet(memory) # 0
    /\ memory = pre.memory

\* The body of a source that is one loop with no loop inside, else <<>>.
IsSingleLoop ==
    /\ Len(Tokens) >= 2
    /\ Tokens[1] = "[" /\ Tokens[Len(Tokens)] = "]"
    /\ \A i \in 2..(Len(Tokens) - 1) : Tokens[i] \notin {"[", "]"}
LoopBody == SubSeq(Tokens, 2, Len(Tokens) - 1)

\* The pointer's displacement after the first k tokens of a body.
Disp(body, k) ==
    Cardinality({i \in 1..k : body[i] = ">"})
    - Cardinality({i \in 1..k : body[i] = "<"})

\* The net increment a pass of the body makes at offset o.
NetAt(body, o) ==
    Cardinality({i \in 1..Len(body) : body[i] = "+" /\ Disp(body, i) = o})
    - Cardinality({i \in 1..Len(body) : body[i] = "-" /\ Disp(body, i) = o})

\* The offsets other than the start the pointer moves onto, and the token
\* at which it first reaches each.
VisitedOffsets(body) ==
    {Disp(body, k) : k \in {i \in 1..Len(body) : body[i] \in {"<", ">"}}}
    \ {0}
FirstAt(body, o) ==
    CHOOSE k \in 1..Len(body) :
        /\ body[k] \in {"<", ">"} /\ Disp(body, k) = o
        /\ \A j \in 1..(k - 1) : ~(body[j] \in {"<", ">"} /\ Disp(body, j) = o)

IsIdiom(body) ==
    /\ \A i \in 1..Len(body) : body[i] \in {"+", "-", "<", ">"}
    /\ Disp(body, Len(body)) = 0
    /\ NetAt(body, 0) = -1

\* C11: a loop compiles to AddUntilZero (or Clear, with nothing to
\* redistribute) exactly when its body is made of moves and increments only,
\* has net displacement zero and takes exactly 1 off the starting cell per
\* pass; the target then holds one (offset, multiplier) pair per visited
\* offset, in first-visited order, the multiplier being the net increment
\* there.  Any other loop compiles to a JumpIfZero whose target is the index
\* just past its Jump, and a Jump whose target is the JumpIfZero's index.
C11_LoopCompilation ==
    (pc # "source" /\ compiled.ok) =>
        LET list == compiled.list IN
        /\ \A i \in 1..Len(list) :
              /\ list[i].op = "JumpIfZero" =>
                    /\ list[i].target \in (i + 1)..(Len(list) - 1)
                    /\ list[list[i].target].op = "Jump"
                    /\ list[list[i].target].target = i - 1
              /\ list[i].op = "Jump" =>
                    /\ list[i].target \in 0..(i - 2)
                    /\ list[list[i].target + 1].op = "JumpIfZero"
                    /\ list[list[i].target + 1].target = i
        /\ IsSingleLoop =>
              LET body == LoopBody IN
              IF IsIdiom(body)
              THEN /\ Len(list) = 2
                   /\ list[1].op \in {"AddUntilZero", "Clear"}
                   /\ list[1].op = "Clear" <=> VisitedOffsets(body) = {}
                   /\ list[1].op = "AddUntilZero" =>
                        LET t == list[1].target IN
                        /\ {t[j].offset : j \in 1..Len(t)} = VisitedOffsets(body)
                        /\ Len(t) = Cardinality(VisitedOffsets(body))
                        /\ \A j \in 1..Len(t) :
                              t[j].times = NetAt(body, t[j].offset)
                        /\ \A j, k \in 1..Len(t) :
                              j < k => FirstAt(body, t[j].offset)
                                         < FirstAt(body, t[k].offset)
              ELSE /\ Len(list) = Len(body) + 3
                   /\ list[1] = [op |-> "JumpIfZero", target |-> Len(body) + 2]
                   /\ list[Len(body) + 2] = [op |-> "Jump", target |-> 0]
                   /\ \A i \in 2..(Len(body) + 1) :
                         list[i].op \in {"Add", "Seek", "Input", "Output"}

C11_Witness ==
    /\ pc = "idle"
    /\ IsSingleLoop
    /\ compiled.list[1].op = "AddUntilZero"
    /\ Len(compiled.list[1].target) = 2
    /\ compiled.list[1].target[1].offset = 1
    /\ compiled.list[1].target[2].offset = -1

\* The source is n increments followed by one output.
PlusDot ==
    /\ Len(Tokens) >= 1
    /\ Tokens[Len(Tokens)] = "."
    /\ \A i \in 1..(Len(Tokens) - 1) : Tokens[i] = "+"

\* C12: the source of n '+' followed by '.', run on a fresh zeroed tape with
\* wrapping cells, never fails; run returns Ok with the processor Halted,
\* and the output stream then holds the one value n modulo the number of
\* cell values.
C12_PlusDotOutputs ==
    (Loaded /\ PlusDot /\ memory.policy = "wrap") =>
        LET n == Len(Tokens) - 1 IN
        /\ state # "Failed"
        /\ pc # "aborted"
        /\ counter <= n + 1
        /\ Stepped => ret \in {Ok, ErrAlreadyHalted}
        /\ last.op = "run_return" => ret = Ok /\ state = "Halted"
        /\ state = "Halted" =>
              /\ counter = n + 1
              /\ out_stream = <<n % CellMod>>
              /\ MemGet(memory) = n % CellMod

C12_Witness ==
    /\ Tokens = <<"+", "+", "+", ".">>
    /\ memory.policy = "wrap"
    /\ last.op = "run_return"
    /\ ret = Ok
    /\ state = "Halted"
    /\ Len(out_stream) = 1

\* The sum of the multipliers of the pairs of target t that land on the
\* cell of index c (0-based) from pointer p on a tape of length len.
RECURSIVE TimesOnto(_, _, _, _)
TimesOnto(t, c, p, len) ==
    IF t = <<>> THEN 0
    ELSE (IF (p + Head(t).offset) % len = c THEN Head(t).times ELSE 0)
         + TimesOnto(Tail(t), c, p, len)

\* C13 as stated: a successful AddUntilZero step advances the counter by
\* one; with starting value 0 it leaves the memory unchanged; otherwise the
\* pointer is where it was, the starting cell is 0, each cell at a listed
\* offset has had v x multiplier added under the policy, and every other
\* cell is unchanged.
C13_Original ==
    (Stepped /\ last.instr.op = "AddUntilZero" /\ ret = Ok) =>
        LET v == MemGet(pre.memory)
            p == pre.memory.ptr
            len == MemLen(pre.memory)
        IN  /\ counter = pre.counter + 1
            /\ v = 0 => memory = pre.memory
            /\ v # 0 =>
                 /\ memory.ptr = p
                 /\ memory.policy = pre.memory.policy
                 /\ memory.cells[p + 1] = 0
                 /\ \A c \in 0..(len - 1) :
                       c # p =>
                         memory.cells[c + 1] =
                           Wrap(pre.memory.cells[c + 1]
                                + v * TimesOnto(last.instr.target, c, p, len))

\* Whether pair a of an AddUntilZero fails from pointer p with starting
\* value v under the strict policy: its cell is off the tape, or the sum
\* is out of range.
PairFails(a, v, mem) ==
    LET c == mem.ptr + a.offset IN
    \/ c < 0
    \/ c >= MemLen(mem)
    \/ ~InRange(mem.cells[c + 1] + v * a.times)

\* C14 as stated: under the strict policy an AddUntilZero step fails with a
\* Memory error exactly when the JumpIfZero/body/Jump form of the loop,
\* run from the same tape, fails, and with the same MemoryError; it stops
\* at the first failing pair and applies none after it.
C14_Original ==
    (/\ pre.memory.policy = "strict"
     /\ Stepped
     /\ last.instr.op = "AddUntilZero"
     /\ ~Terminal(pre.state)
     /\ Terminal(naive.m.state)) =>
        LET t == last.instr.target
            v == MemGet(pre.memory)
            p == pre.memory.ptr
        IN  /\ (ret.kind = "Memory") <=> (naive.m.state = "Failed")
            /\ ret.kind = "Memory" => ret = naive.ret
            /\ ret.kind = "Memory" =>
                 \E k \in 1..Len(t) :
                    /\ PairFails(t[k], v, pre.memory)
                    /\ \A j \in 1..(k - 1) : ~PairFails(t[j], v, pre.memory)
                    /\ \A j \in 1..Len(t) :
                          LET c == p + t[j].offset IN
                          (0 <= c /\ c < MemLen(memory)) =>
                             memory.cells[c + 1] =
                                pre.memory.cells[c + 1]
                                + (IF j < k THEN v * t[j].times ELSE 0)

Program == Loaded /\ Len(instructions) > 1

\* C15: while a compiled program of more than one instruction runs, the
\* counter is an index of the list, the state is Halted exactly when the
\* instruction at the counter is Halt, and no step dispatches on Halt or
\* indexes past the end (the only panic left is Input's unwrap).
C15_CounterOnHalt ==
    Program =>
        /\ counter \in 0..(Len(instructions) - 1)
        /\ (state = "Halted") <=> (instructions[counter + 1] = Halt)
        /\ last.instr.op # "Halt"
        /\ ret = Panic => last.instr.op = "Input"

C15_Witness ==
    /\ Program
    /\ Stepped
    /\ last.instr.op = "JumpIfZero"
    /\ state = "Halted"
    /\ counter > pre.counter + 1

\* C16: a Jump step sets the counter to its target; a JumpIfZero step sets
\* it to its target when the current cell is 0 and advances it by 1
\* otherwise; every other successful step advances it by 1; a failed step
\* leaves it unchanged.  Jump and JumpIfZero return Ok and change neither
\* memory nor streams; after a successful step the state is Halted exactly
\* when the counter is on Halt.
C16_CounterUpdate ==
    (Stepped /\ ~Terminal(pre.state)) =>
        LET ins == last.instr
            frame == /\ memory = pre.memory
                     /\ in_stream = pre.in_stream
                     /\ out_stream = pre.out_stream
        IN  /\ ins.op = "Jump" =>
                 ret = Ok /\ counter = ins.target /\ frame
            /\ ins.op = "JumpIfZero" =>
                 /\ ret = Ok
                 /\ counter = IF MemGet(pre.memory) = 0
                              THEN ins.target ELSE pre.counter + 1
                 /\ frame
            /\ (ins.op \notin {"Jump", "JumpIfZero"} /\ ret = Ok) =>
                 counter = pre.counter + 1
            /\ ret # Ok => counter = pre.counter
            /\ ret = Ok =>
                 /\ counter < Len(instructions)
                 /\ (state = "Halted") <=> (instructions[counter + 1] = Halt)
                 /\ state # "Halted" => state = pre.state

C16_Witness ==
    /\ Stepped
    /\ last.instr.op = "Jump"
    /\ counter < pre.counter
    /\ MemGet(memory) # 0
    /\ state = "Ready"

\* C17: an Output step appends the current cell's value, and nothing else,
\* to the output stream and leaves memory and input stream unchanged; an
\* Input step reads exactly one value, changes at most the current cell and
\* leaves the output stream unchanged; no other step, and no other call,
\* touches either stream.
C17_StreamFrame ==
    /\ (Stepped /\ ~Terminal(pre.state)) =>
          LET ins == last.instr IN
          /\ ins.op = "Output" =>
                /\ out_stream = Append(pre.out_stream, MemGet(pre.memory))
                /\ memory = pre.memory
                /\ in_stream = pre.in_stream
          /\ ins.op = "Input" =>
                /\ Len(in_stream) = Len(pre.in_stream) + 1
                /\ SubSeq(in_stream, 1, Len(pre.in_stream)) = pre.in_stream
                /\ out_stream = pre.out_stream
                /\ memory.ptr = pre.memory.ptr
                /\ \A c \in 1..MemLen(memory) :
                      c # memory.ptr + 1 =>
                         memory.cells[c] = pre.memory.cells[c]
          /\ ins.op \notin {"Input", "Output"} =>
                in_stream = pre.in_stream /\ out_stream = pre.out_stream
    /\ (~Stepped \/ Terminal(pre.state)) =>
          in_stream = pre.in_stream /\ out_stream = pre.out_stream

C17_Witness ==
    /\ Stepped
    /\ last.instr.op = "Output"
    /\ pre.in_stream # <<>>
    /\ Len(out_stream) = 1
    /\ out_stream[1] # 0

\* C18: run on a program of more than one instruction returns Ok only with
\* the processor Halted, the counter on Halt; it returns an error only from
\* a step that failed, at once, the error being that step's Memory error
\* and the processor Failed; while a step returns Ok run goes on.
C18_RunResult ==
    Program =>
        /\ last.op = "run_return" =>
              /\ ret = Ok
              /\ pc = "idle"
              /\ state = "Halted"
              /\ instructions[counter + 1] = Halt
        /\ (Stepped /\ last.by = "run") =>
              /\ ~Terminal(pre.state)
              /\ ret = Ok => pc = "run"
              /\ ret \notin {Ok, Panic} =>
                    /\ pc = "idle"
                    /\ ret.kind = "Memory"
                    /\ state = "Failed"
        /\ (pc = "idle" /\ last.by = "run") => Terminal(state)

C18_Witness ==
    /\ Program
    /\ last.op = "run_return"
    /\ \E i \in 1..Len(instructions) : instructions[i].op = "Jump"
    /\ out_stream # <<>>

NoJumps == \A i \in 1..Len(instructions) : ~IsJump(instructions[i])

\* C19 as stated: with no Jump or JumpIfZero among n > 1 instructions, every
\* successful step increases the counter, which never passes n - 1, and run
\* ends with the processor Halted or Failed.
C19_Original ==
    (Program /\ NoJumps) =>
        /\ (Stepped /\ ret = Ok) => counter > pre.counter
        /\ counter <= Len(instructions) - 1
        /\ (last.by = "run" /\ pc # "run") => Terminal(state)
        /\ last.op = "run_return" => Terminal(state)
====
